---------------------------- MODULE Spec2Model ----------------------------
(***************************************************************************)
(* The calculator of src/src/components/Calculator.tsx as a state machine: *)
(* the React state of the Calculator component, one action per handler.    *)
(*                                                                         *)
(* Texts (the display, the expression and result of a history item, the    *)
(* toasts) are sequences of one-character strings, so that slice, indexOf  *)
(* and concatenation act on characters as in the source.                   *)
(*                                                                         *)
(* Numbers are IEEE doubles.  A double is modelled as a record:            *)
(*   [k |-> "nan"], [k |-> "inf", neg], [k |-> "sym", neg, name] (the      *)
(*   doubles Math.PI and Math.E), or [k |-> "fin", neg, n, d], the double  *)
(*   nearest to the rational (-1)^neg * n / d, n/d in lowest terms (a      *)
(*   signed zero has n = 0).  An operation is carried out when its double  *)
(*   result is known exactly: on dyadic operands (d a power of two), whose *)
(*   doubles are the rationals themselves, and on the identities IEEE 754  *)
(*   fixes.  Every other result is Unmodelled; a handler is explored only  *)
(*   where every number it computes is modelled (Modelled), which bounds   *)
(*   the numbers the way MaxLen bounds the display.                        *)
(***************************************************************************)
EXTENDS Integers, Sequences, FiniteSets, TLC

VARIABLES
    display,            \* useState("0"): the text on the display
    previousValue,      \* useState<number | null>(null): the stored left operand
    operation,          \* useState<string | null>(null): the stored operator
    waitingForOperand,  \* useState(false)
    history,            \* useState<HistoryItem[]>([]), newest first
    now,                \* the clock Date.now() reads
    toasts,             \* the showError messages of the latest command
    recorded,           \* every item given to addToHistory since the history was last emptied, oldest first
    last,               \* the latest command handled
    script,             \* the commands of a scripted run (empty in a free run)
    pc                  \* the position in script of the next command

vars == << display, previousValue, operation, waitingForOperand, history, now,
           toasts, recorded, last, script, pc >>

-----------------------------------------------------------------------------
(* Bounds of the exploration *)

\* The longest display the digit and point keys may build.
MaxLen == 3
\* The largest numerator and denominator of a modelled finite number, in a free
\* run and in a scripted run.
MaxNum == 8
MaxScriptNum == 40
\* The clock runs from 0 to MaxNow.
MaxNow == 1
\* Runs of the history log record at most MaxRecorded items between two Clear History clicks.
MaxRecorded == 52

-----------------------------------------------------------------------------
(* Numbers *)

Null == [k |-> "null"]
NaN == [k |-> "nan"]
Unmodelled == [k |-> "unmodelled"]
Inf(neg) == [k |-> "inf", neg |-> neg]
Sym(neg, name) == [k |-> "sym", neg |-> neg, name |-> name]

RECURSIVE GCD(_, _)
GCD(a, b) == IF b = 0 THEN a ELSE GCD(b, a % b)

\* The double nearest to (-1)^neg * n / d.
Fin(neg, n, d) ==
    IF n = 0 THEN [k |-> "fin", neg |-> neg, n |-> 0, d |-> 1]
    ELSE LET g == GCD(n, d)
         IN [k |-> "fin", neg |-> neg, n |-> n \div g, d |-> d \div g]

Whole(i) == IF i < 0 THEN Fin(TRUE, -i, 1) ELSE Fin(FALSE, i, 1)

RECURSIVE OnlyFactors(_, _)
\* n (> 0) has no prime factor outside ps.
OnlyFactors(n, ps) ==
    IF n = 1 THEN TRUE
    ELSE IF \E p \in ps : n % p = 0
         THEN OnlyFactors(n \div (CHOOSE p \in ps : n % p = 0), ps)
         ELSE FALSE

IsFin(x) == x.k = "fin"
IsZero(x) == x.k = "fin" /\ x.n = 0
\* The double is the rational itself.
Dyadic(x) == x.k = "fin" /\ OnlyFactors(x.d, {2})
\* The shortest decimal text of the double is the decimal expansion of n/d.
Decimal(x) == x.k = "fin" /\ OnlyFactors(x.d, {2, 5})
IsInteger(x) == x.k = "fin" /\ x.d = 1
IsOdd(x) == IsInteger(x) /\ x.n % 2 = 1
IsOne(x) == x.k = "fin" /\ x.n = 1 /\ x.d = 1 /\ ~x.neg

\* The bound on the numbers of the run at hand.
NumCap == IF script = << >> THEN MaxNum ELSE MaxScriptNum

\* The numbers the model carries: within these, a number's text and the
\* operations on it are computed exactly as the doubles' are.
Modelled(x) ==
    \/ x.k \in {"nan", "inf", "sym"}
    \/ x.k = "fin" /\ x.n <= NumCap /\ x.d <= NumCap /\ Decimal(x)

\* x < 0, x > 0 (false of NaN and of both zeros)
Negative(x) == x.k \in {"fin", "inf", "sym"} /\ x.neg /\ ~IsZero(x)
Positive(x) == x.k \in {"fin", "inf", "sym"} /\ ~x.neg /\ ~IsZero(x)

\* -x
Neg(x) ==
    IF x.k \in {"fin", "inf", "sym"} THEN [x EXCEPT !.neg = ~x.neg] ELSE x

\* |x| compared with 1, for a finite x: -1, 0 or 1.
AbsVsOne(x) == IF x.n < x.d THEN -1 ELSE IF x.n = x.d THEN 0 ELSE 1

\* a + b
Add(a, b) ==
    IF a.k = "unmodelled" \/ b.k = "unmodelled" THEN Unmodelled
    ELSE IF a.k = "nan" \/ b.k = "nan" THEN NaN
    ELSE IF a.k = "inf" /\ b.k = "inf" THEN (IF a.neg = b.neg THEN a ELSE NaN)
    ELSE IF a.k = "inf" THEN a
    ELSE IF b.k = "inf" THEN b
    ELSE IF IsZero(a) /\ IsZero(b) THEN Fin(a.neg /\ b.neg, 0, 1)
    ELSE IF IsZero(b) THEN a
    ELSE IF IsZero(a) THEN b
    ELSE IF a.k = "sym" \/ b.k = "sym"
         THEN (IF a = Neg(b) THEN Fin(FALSE, 0, 1) ELSE Unmodelled)
    ELSE IF a = Neg(b) THEN Fin(FALSE, 0, 1)
    ELSE IF ~(Dyadic(a) /\ Dyadic(b)) THEN Unmodelled
    ELSE LET sa == IF a.neg THEN -a.n ELSE a.n
             sb == IF b.neg THEN -b.n ELSE b.n
             s == sa * b.d + sb * a.d
         IN IF s < 0 THEN Fin(TRUE, -s, a.d * b.d) ELSE Fin(FALSE, s, a.d * b.d)

\* a - b
Sub(a, b) == Add(a, Neg(b))

\* a * b
Mul(a, b) ==
    IF a.k = "unmodelled" \/ b.k = "unmodelled" THEN Unmodelled
    ELSE IF a.k = "nan" \/ b.k = "nan" THEN NaN
    ELSE IF a.k = "inf" \/ b.k = "inf"
         THEN (IF IsZero(a) \/ IsZero(b) THEN NaN ELSE Inf(a.neg # b.neg))
    ELSE IF IsZero(a) \/ IsZero(b) THEN Fin(a.neg # b.neg, 0, 1)
    ELSE IF IsOne(a) THEN b
    ELSE IF IsOne(b) THEN a
    ELSE IF IsOne(Neg(a)) THEN Neg(b)
    ELSE IF IsOne(Neg(b)) THEN Neg(a)
    ELSE IF ~(Dyadic(a) /\ Dyadic(b)) THEN Unmodelled
    ELSE Fin(a.neg # b.neg, a.n * b.n, a.d * b.d)

\* a / b
Div(a, b) ==
    IF a.k = "unmodelled" \/ b.k = "unmodelled" THEN Unmodelled
    ELSE IF a.k = "nan" \/ b.k = "nan" THEN NaN
    ELSE IF a.k = "inf" THEN (IF b.k = "inf" THEN NaN ELSE Inf(a.neg # b.neg))
    ELSE IF b.k = "inf" THEN Fin(a.neg # b.neg, 0, 1)
    ELSE IF IsZero(b)
         THEN (IF IsZero(a) THEN NaN ELSE Inf(a.neg # b.neg))
    ELSE IF IsZero(a) THEN Fin(a.neg # b.neg, 0, 1)
    ELSE IF IsOne(b) THEN a
    ELSE IF IsOne(Neg(b)) THEN Neg(a)
    ELSE IF a = b THEN Whole(1)
    ELSE IF a = Neg(b) THEN Whole(-1)
    ELSE IF ~(Dyadic(a) /\ Dyadic(b)) THEN Unmodelled
    ELSE Fin(a.neg # b.neg, a.n * b.d, a.d * b.n)

RECURSIVE PowNat(_, _)
\* a^e for a dyadic a, |a| # 1, and a natural e >= 1; Unmodelled once past NumCap.
PowNat(a, e) ==
    IF e = 1 THEN a
    ELSE LET r == PowNat(a, e - 1)
         IN IF r.k = "unmodelled" \/ r.n > NumCap \/ r.d > NumCap
            THEN Unmodelled
            ELSE Fin(r.neg # a.neg, r.n * a.n, r.d * a.d)

\* Math.pow(a, b)
Pow(a, b) ==
    IF a.k = "unmodelled" \/ b.k = "unmodelled" THEN Unmodelled
    ELSE IF b.k = "nan" THEN NaN
    ELSE IF IsZero(b) THEN Whole(1)
    ELSE IF a.k = "nan" THEN NaN
    ELSE IF b.k = "inf"
         THEN IF a.k = "inf" THEN (IF b.neg THEN Whole(0) ELSE Inf(FALSE))
              ELSE IF a.k = "sym" THEN (IF b.neg THEN Whole(0) ELSE Inf(FALSE))
              ELSE IF AbsVsOne(a) = 0 THEN NaN
              ELSE IF (AbsVsOne(a) = 1) = b.neg THEN Whole(0) ELSE Inf(FALSE)
    ELSE IF a.k = "inf" \/ IsZero(a)
         THEN LET big == (a.k = "inf") # b.neg
                  neg == a.neg /\ IsOdd(b)
              IN IF big THEN Inf(neg) ELSE Fin(neg, 0, 1)
    ELSE IF IsOne(b) THEN a
    ELSE IF a.k = "sym" THEN Unmodelled
    ELSE IF ~IsInteger(b) THEN (IF a.neg THEN NaN ELSE IF IsOne(a) THEN Whole(1) ELSE Unmodelled)
    ELSE IF IsOne(a) THEN Whole(1)
    ELSE IF IsOne(Neg(a)) THEN (IF IsOdd(b) THEN a ELSE Whole(1))
    ELSE IF ~Dyadic(a) \/ b.n > NumCap THEN Unmodelled
    ELSE LET p == PowNat(a, b.n)
         IN IF p.k = "unmodelled" THEN Unmodelled
            ELSE IF ~b.neg THEN p
            ELSE IF OnlyFactors(p.n, {2}) THEN Fin(p.neg, p.d, p.n)
            ELSE Unmodelled

RECURSIVE Root(_, _)
\* The natural r >= from with r * r = n, or 0 when there is none.
Root(n, from) ==
    IF from * from > n THEN 0
    ELSE IF from * from = n THEN from
    ELSE Root(n, from + 1)

\* Math.sqrt(x)
Sqrt(x) ==
    IF x.k = "unmodelled" THEN x
    ELSE IF Negative(x) THEN NaN
    ELSE IF x.k \in {"nan", "inf"} THEN x
    ELSE IF x.k = "sym" THEN Unmodelled
    ELSE IF IsZero(x) THEN x
    ELSE IF Dyadic(x) /\ Root(x.n, 1) # 0 /\ Root(x.d, 1) # 0
         THEN Fin(FALSE, Root(x.n, 1), Root(x.d, 1))
    ELSE Unmodelled

\* Math.log10(x), for an x that is not at or below zero
Log10(x) ==
    IF x.k \in {"unmodelled", "nan", "inf"} THEN x
    ELSE IF x = Whole(1) THEN Whole(0)
    ELSE IF x = Whole(10) THEN Whole(1)
    ELSE IF x = Whole(100) THEN Whole(2)
    ELSE Unmodelled

\* Math.log(x), for an x that is not at or below zero
Ln(x) ==
    IF x.k \in {"unmodelled", "nan", "inf"} THEN x
    ELSE IF x = Whole(1) THEN Whole(0)
    ELSE IF x = Sym(FALSE, "E") THEN Whole(1)
    ELSE Unmodelled

\* x * Math.PI / 180
Radians(x) ==
    IF x.k \in {"unmodelled", "nan", "inf"} THEN x
    ELSE IF IsZero(x) THEN x
    ELSE Unmodelled

\* Math.sin(r), Math.tan(r): an odd function, r -> r at a zero
SinTan(r) ==
    IF r.k = "inf" THEN NaN ELSE r

\* Math.cos(r)
Cos(r) ==
    IF r.k = "inf" THEN NaN
    ELSE IF r.k = "fin" THEN Whole(1)
    ELSE r
-----------------------------------------------------------------------------
(* Texts *)

DigitChars == << "0", "1", "2", "3", "4", "5", "6", "7", "8", "9" >>
IsDigit(c) == \E i \in 1..10 : DigitChars[i] = c
DigitValue(c) == (CHOOSE i \in 1..10 : DigitChars[i] = c) - 1

RECURSIVE NatText(_)
\* The decimal digits of a natural number.
NatText(n) ==
    IF n < 10 THEN << DigitChars[n + 1] >>
    ELSE Append(NatText(n \div 10), DigitChars[(n % 10) + 1])

RECURSIVE Pow10(_)
Pow10(k) == IF k = 0 THEN 1 ELSE 10 * Pow10(k - 1)

RECURSIVE FracLen(_, _)
\* The least k >= from with d dividing 10^k (d has no prime factor but 2 and 5).
FracLen(d, from) == IF Pow10(from) % d = 0 THEN from ELSE FracLen(d, from + 1)

RECURSIVE Padded(_, _)
\* The digits of n, with zeros in front up to the length k.
Padded(n, k) ==
    IF k = 0 THEN << >>
    ELSE Append(Padded(n \div 10, k - 1), DigitChars[(n % 10) + 1])

PI_TEXT == << "3", ".", "1", "4", "1", "5", "9", "2", "6", "5", "3", "5", "8", "9", "7", "9", "3" >>
E_TEXT == << "2", ".", "7", "1", "8", "2", "8", "1", "8", "2", "8", "4", "5", "9", "0", "4", "5" >>
INFINITY_TEXT == << "I", "n", "f", "i", "n", "i", "t", "y" >>
NAN_TEXT == << "N", "a", "N" >>

\* String(x), `${x}`: Number::toString of a modelled number.  A modelled finite
\* number lies between 1e-6 and 1e21 in magnitude (NumCap is far below both), where
\* the text is the plain decimal expansion, without exponent.
NumberToString(x) ==
    IF x.k = "nan" THEN NAN_TEXT
    ELSE IF x.k = "inf" THEN (IF x.neg THEN << "-" >> ELSE << >>) \o INFINITY_TEXT
    ELSE IF x.k = "sym"
         THEN (IF x.neg THEN << "-" >> ELSE << >>)
              \o (IF x.name = "PI" THEN PI_TEXT ELSE E_TEXT)
    ELSE IF x.n = 0 THEN << "0" >>
    ELSE LET k == FracLen(x.d, 0)
             scaled == x.n * (Pow10(k) \div x.d)
         IN (IF x.neg THEN << "-" >> ELSE << >>)
            \o NatText(scaled \div Pow10(k))
            \o (IF k = 0 THEN << >> ELSE << "." >> \o Padded(scaled % Pow10(k), k))

RECURSIVE DigitPrefix(_)
\* The longest prefix of s made of digits.
DigitPrefix(s) ==
    IF s = << >> \/ ~IsDigit(Head(s)) THEN << >>
    ELSE << Head(s) >> \o DigitPrefix(Tail(s))

RECURSIVE TextNat(_)
\* The natural number a sequence of digits denotes (0 for none).
TextNat(s) ==
    IF s = << >> THEN 0
    ELSE 10 * TextNat(SubSeq(s, 1, Len(s) - 1)) + DigitValue(s[Len(s)])

StartsWith(s, p) == Len(s) >= Len(p) /\ SubSeq(s, 1, Len(p)) = p
Drop(s, n) == SubSeq(s, n + 1, Len(s))

\* parseFloat(s): the longest prefix of s that is a decimal literal (a sign, then
\* Infinity or digits with an optional point and digits), NaN when there is none.
\* The texts of the model hold no blank and no exponent.  A literal of more than
\* nine digits is modelled only where it is the text of Math.PI or Math.E.
parseFloat(s) ==
    LET signed == s # << >> /\ s[1] \in {"-", "+"}
        neg == s # << >> /\ s[1] = "-"
        body == IF signed THEN Tail(s) ELSE s
        ip == DigitPrefix(body)
        rest == Drop(body, Len(ip))
        fp == IF rest # << >> /\ rest[1] = "." THEN DigitPrefix(Tail(rest)) ELSE << >>
    IN IF StartsWith(body, INFINITY_TEXT) THEN Inf(neg)
       ELSE IF ip = << >> /\ fp = << >> THEN NaN
       ELSE IF Len(ip) + Len(fp) <= 9 THEN Fin(neg, TextNat(ip \o fp), Pow10(Len(fp)))
       ELSE IF ip \o << "." >> \o fp = PI_TEXT THEN Sym(neg, "PI")
       ELSE IF ip \o << "." >> \o fp = E_TEXT THEN Sym(neg, "E")
       ELSE Unmodelled

\* s.indexOf(".") === -1
NoPoint(s) == \A i \in 1..Len(s) : s[i] # "."

\* s.slice(0, to) for 0 <= to, and s.slice(0, -1) as SliceTo(s, Len(s) - 1)
SliceTo(s, to) == SubSeq(s, 1, IF to < Len(s) THEN to ELSE Len(s))

\* The label of a scientific function, as text.
FuncText(func) ==
    CASE func = "sin" -> << "s", "i", "n" >>
      [] func = "cos" -> << "c", "o", "s" >>
      [] func = "tan" -> << "t", "a", "n" >>
      [] func = "log" -> << "l", "o", "g" >>
      [] func = "ln" -> << "l", "n" >>
      [] func = "sqrt" -> << "s", "q", "r", "t" >>
      [] func = "x²" -> << "x", "²" >>
      [] func = "1/x" -> << "1", "/", "x" >>
      [] OTHER -> << func >>


-----------------------------------------------------------------------------
(* The Calculator component *)

\* operation === null
OpNull == "null"

Operators == { "+", "-", "×", "÷", "^" }
Functions == { "sin", "cos", "tan", "log", "ln", "sqrt", "x²", "1/x", "π", "e", "±", "%" }

DIVIDE_BY_ZERO == "Cannot divide by zero"
LOG_UNDEFINED == "Logarithm undefined for non-positive values"
LN_UNDEFINED == "Natural logarithm undefined for non-positive values"
SQRT_UNDEFINED == "Square root undefined for negative values"

\* The state after construction at the time t, before a run of the commands in cmds.
InitWith(cmds, t) ==
    /\ display = << "0" >>
    /\ previousValue = Null
    /\ operation = OpNull
    /\ waitingForOperand = FALSE
    /\ history = << >>
    /\ now = t
    /\ toasts = << >>
    /\ recorded = << >>
    /\ last = [t |-> "none", a |-> ""]
    /\ script = cmds
    /\ pc = 1

Init == InitWith(<< >>, 0)

\* The clock at a later read: time has stood still or moved on.
Later(t) == { u \in t..(t + 1) : u <= MaxNow }

\* addToHistory keeping the first 50 old items: prev.slice(0, 50)
addToHistory_Keeps50(expression, result) ==
    \E t \in Later(now) : \E u \in Later(t) :
        LET newItem == [id |-> NatText(t), expression |-> expression,
                        result |-> result, timestamp |-> u]
        IN /\ history' = << newItem >> \o SliceTo(history, 50)
           /\ recorded' = Append(recorded, newItem)
           /\ now' = u

\* addToHistory putting the new item last: [...prev.slice(0, 49), newItem]
addToHistory_Appends(expression, result) ==
    \E t \in Later(now) : \E u \in Later(t) :
        LET newItem == [id |-> NatText(t), expression |-> expression,
                        result |-> result, timestamp |-> u]
        IN /\ history' = SliceTo(history, 49) \o << newItem >>
           /\ recorded' = Append(recorded, newItem)
           /\ now' = u

\* addToHistory(expression, result): the new item in front of the first 49 old ones.
addToHistory(expression, result) ==
    \E t \in Later(now) : \E u \in Later(t) :
        LET newItem == [id |-> NatText(t), expression |-> expression,
                        result |-> result, timestamp |-> u]
        IN /\ history' = << newItem >> \o SliceTo(history, 49)
           /\ recorded' = Append(recorded, newItem)
           /\ now' = u

\* calculate dividing without the test of secondValue === 0
calculate_DivideUnchecked(firstValue, secondValue, op) ==
    CASE op = "+" -> [value |-> Add(firstValue, secondValue), toasts |-> << >>]
      [] op = "-" -> [value |-> Sub(firstValue, secondValue), toasts |-> << >>]
      [] op = "×" -> [value |-> Mul(firstValue, secondValue), toasts |-> << >>]
      [] op = "÷" -> [value |-> Div(firstValue, secondValue), toasts |-> << >>]
      [] op = "^" -> [value |-> Pow(firstValue, secondValue), toasts |-> << >>]
      [] OTHER -> [value |-> secondValue, toasts |-> << >>]

\* calculate(firstValue, secondValue, operation): the value returned and the
\* toasts shown on the way.
calculate(firstValue, secondValue, op) ==
    CASE op = "+" -> [value |-> Add(firstValue, secondValue), toasts |-> << >>]
      [] op = "-" -> [value |-> Sub(firstValue, secondValue), toasts |-> << >>]
      [] op = "×" -> [value |-> Mul(firstValue, secondValue), toasts |-> << >>]
      [] op = "÷" ->
            IF IsZero(secondValue)
            THEN [value |-> firstValue, toasts |-> << DIVIDE_BY_ZERO >>]
            ELSE [value |-> Div(firstValue, secondValue), toasts |-> << >>]
      [] op = "^" -> [value |-> Pow(firstValue, secondValue), toasts |-> << >>]
      [] OTHER -> [value |-> secondValue, toasts |-> << >>]

\* handleNumberClick without the test of display === "0"
handleNumberClick_KeepsZero(num) ==
    /\ IF waitingForOperand
       THEN /\ display' = << num >>
            /\ waitingForOperand' = FALSE
       ELSE /\ display' = display \o << num >>
            /\ UNCHANGED waitingForOperand
    /\ toasts' = << >>
    /\ UNCHANGED << previousValue, operation, history, now, recorded >>

\* handleNumberClick without the test of waitingForOperand
handleNumberClick_Appends(num) ==
    /\ display' = (IF display = << "0" >> THEN << num >> ELSE display \o << num >>)
    /\ waitingForOperand' = FALSE
    /\ toasts' = << >>
    /\ UNCHANGED << previousValue, operation, history, now, recorded >>

handleNumberClick(num) ==
    /\ IF waitingForOperand
       THEN /\ display' = << num >>
            /\ waitingForOperand' = FALSE
       ELSE /\ display' = (IF display = << "0" >> THEN << num >> ELSE display \o << num >>)
            /\ UNCHANGED waitingForOperand
    /\ toasts' = << >>
    /\ UNCHANGED << previousValue, operation, history, now, recorded >>

\* handleDecimalClick without setWaitingForOperand(false)
handleDecimalClick_KeepsWaiting ==
    /\ IF waitingForOperand
       THEN display' = << "0", "." >>
       ELSE IF NoPoint(display)
       THEN display' = display \o << "." >>
       ELSE UNCHANGED display
    /\ toasts' = << >>
    /\ UNCHANGED << previousValue, operation, waitingForOperand, history, now, recorded >>

\* handleDecimalClick without the test of display.indexOf(".") === -1
handleDecimalClick_Unchecked ==
    /\ IF waitingForOperand
       THEN /\ display' = << "0", "." >>
            /\ waitingForOperand' = FALSE
       ELSE /\ display' = display \o << "." >>
            /\ UNCHANGED waitingForOperand
    /\ toasts' = << >>
    /\ UNCHANGED << previousValue, operation, history, now, recorded >>

handleDecimalClick ==
    /\ IF waitingForOperand
       THEN /\ display' = << "0", "." >>
            /\ waitingForOperand' = FALSE
       ELSE IF NoPoint(display)
       THEN /\ display' = display \o << "." >>
            /\ UNCHANGED waitingForOperand
       ELSE UNCHANGED << display, waitingForOperand >>
    /\ toasts' = << >>
    /\ UNCHANGED << previousValue, operation, history, now, recorded >>

\* previousValue || 0
OrZero(x) == IF x.k = "nan" \/ IsZero(x) THEN Whole(0) ELSE x

\* handleOperationClick recording the operation it resolves, as handleEqualsClick does
handleOperationClick_Records(nextOperation) ==
    LET inputValue == parseFloat(display)
    IN /\ Modelled(inputValue)
       /\ IF previousValue = Null
          THEN /\ previousValue' = inputValue
               /\ toasts' = << >>
               /\ UNCHANGED << display, history, now, recorded >>
          ELSE IF operation # OpNull
          THEN LET currentValue == OrZero(previousValue)
                   newValue == calculate(currentValue, inputValue, operation)
               IN /\ Modelled(newValue.value)
                  /\ addToHistory(NumberToString(currentValue) \o << " ", operation, " " >>
                                  \o NumberToString(inputValue),
                                  NumberToString(newValue.value))
                  /\ display' = NumberToString(newValue.value)
                  /\ previousValue' = newValue.value
                  /\ toasts' = newValue.toasts
          ELSE /\ toasts' = << >>
               /\ UNCHANGED << display, previousValue, history, now, recorded >>
       /\ waitingForOperand' = TRUE
       /\ operation' = nextOperation

\* handleOperationClick storing the new operand in place of resolving the pending operation
handleOperationClick_NoResolve(nextOperation) ==
    LET inputValue == parseFloat(display)
    IN /\ Modelled(inputValue)
       /\ previousValue' = inputValue
       /\ toasts' = << >>
       /\ waitingForOperand' = TRUE
       /\ operation' = nextOperation
       /\ UNCHANGED << display, history, now, recorded >>

handleOperationClick(nextOperation) ==
    LET inputValue == parseFloat(display)
    IN /\ Modelled(inputValue)
       /\ IF previousValue = Null
          THEN /\ previousValue' = inputValue
               /\ toasts' = << >>
               /\ UNCHANGED display
          ELSE IF operation # OpNull
          THEN LET currentValue == OrZero(previousValue)
                   newValue == calculate(currentValue, inputValue, operation)
               IN /\ Modelled(newValue.value)
                  /\ display' = NumberToString(newValue.value)
                  /\ previousValue' = newValue.value
                  /\ toasts' = newValue.toasts
          ELSE /\ toasts' = << >>
               /\ UNCHANGED << display, previousValue >>
       /\ waitingForOperand' = TRUE
       /\ operation' = nextOperation
       /\ UNCHANGED << history, now, recorded >>

\* handleEqualsClick not recording an expression the history holds already
handleEqualsClick_SkipsRepeat ==
    IF previousValue # Null /\ operation # OpNull
    THEN LET inputValue == parseFloat(display)
             newValue == calculate(previousValue, inputValue, operation)
             expression == NumberToString(previousValue) \o << " ", operation, " " >>
                           \o NumberToString(inputValue)
         IN /\ Modelled(inputValue)
            /\ Modelled(newValue.value)
            /\ IF \E i \in 1..Len(history) : history[i].expression = expression
               THEN UNCHANGED << history, now, recorded >>
               ELSE addToHistory(expression, NumberToString(newValue.value))
            /\ display' = NumberToString(newValue.value)
            /\ previousValue' = Null
            /\ operation' = OpNull
            /\ waitingForOperand' = TRUE
            /\ toasts' = newValue.toasts
    ELSE /\ toasts' = << >>
         /\ UNCHANGED << display, previousValue, operation, waitingForOperand,
                         history, now, recorded >>

\* handleEqualsClick without setWaitingForOperand(true)
handleEqualsClick_NoWaiting ==
    IF previousValue # Null /\ operation # OpNull
    THEN LET inputValue == parseFloat(display)
             newValue == calculate(previousValue, inputValue, operation)
             expression == NumberToString(previousValue) \o << " ", operation, " " >>
                           \o NumberToString(inputValue)
         IN /\ Modelled(inputValue)
            /\ Modelled(newValue.value)
            /\ addToHistory(expression, NumberToString(newValue.value))
            /\ display' = NumberToString(newValue.value)
            /\ previousValue' = Null
            /\ operation' = OpNull
            /\ toasts' = newValue.toasts
            /\ UNCHANGED waitingForOperand
    ELSE /\ toasts' = << >>
         /\ UNCHANGED << display, previousValue, operation, waitingForOperand,
                         history, now, recorded >>

\* handleEqualsClick with setWaitingForOperand(true) outside the if
handleEqualsClick_AlwaysWaits ==
    IF previousValue # Null /\ operation # OpNull
    THEN LET inputValue == parseFloat(display)
             newValue == calculate(previousValue, inputValue, operation)
             expression == NumberToString(previousValue) \o << " ", operation, " " >>
                           \o NumberToString(inputValue)
         IN /\ Modelled(inputValue)
            /\ Modelled(newValue.value)
            /\ addToHistory(expression, NumberToString(newValue.value))
            /\ display' = NumberToString(newValue.value)
            /\ previousValue' = Null
            /\ operation' = OpNull
            /\ waitingForOperand' = TRUE
            /\ toasts' = newValue.toasts
    ELSE /\ toasts' = << >>
         /\ waitingForOperand' = TRUE
         /\ UNCHANGED << display, previousValue, operation, history, now, recorded >>

handleEqualsClick ==
    IF previousValue # Null /\ operation # OpNull
    THEN LET inputValue == parseFloat(display)
             newValue == calculate(previousValue, inputValue, operation)
             expression == NumberToString(previousValue) \o << " ", operation, " " >>
                           \o NumberToString(inputValue)
         IN /\ Modelled(inputValue)
            /\ Modelled(newValue.value)
            /\ addToHistory(expression, NumberToString(newValue.value))
            /\ display' = NumberToString(newValue.value)
            /\ previousValue' = Null
            /\ operation' = OpNull
            /\ waitingForOperand' = TRUE
            /\ toasts' = newValue.toasts
    ELSE /\ toasts' = << >>
         /\ UNCHANGED << display, previousValue, operation, waitingForOperand,
                         history, now, recorded >>

\* handleClearClick without setOperation(null)
handleClearClick_KeepsOperation ==
    /\ display' = << "0" >>
    /\ previousValue' = Null
    /\ waitingForOperand' = FALSE
    /\ toasts' = << >>
    /\ UNCHANGED << operation, history, now, recorded >>

handleClearClick ==
    /\ display' = << "0" >>
    /\ previousValue' = Null
    /\ operation' = OpNull
    /\ waitingForOperand' = FALSE
    /\ toasts' = << >>
    /\ UNCHANGED << history, now, recorded >>

\* handleBackspaceClick taking the edit for the start of a new operand
handleBackspaceClick_ClearsWaiting ==
    /\ display' = (IF Len(display) > 1 THEN SliceTo(display, Len(display) - 1) ELSE << "0" >>)
    /\ waitingForOperand' = FALSE
    /\ toasts' = << >>
    /\ UNCHANGED << previousValue, operation, history, now, recorded >>

handleBackspaceClick ==
    /\ display' = (IF Len(display) > 1 THEN SliceTo(display, Len(display) - 1) ELSE << "0" >>)
    /\ toasts' = << >>
    /\ UNCHANGED << previousValue, operation, waitingForOperand, history, now, recorded >>

\* case "sqrt" without the test of inputValue < 0
SqrtCase_Unchecked(inputValue) == [return |-> FALSE, value |-> Sqrt(inputValue)]

\* case "sqrt" of handleScientificFunction
SqrtCase(inputValue) ==
    IF Negative(inputValue)
    THEN [return |-> TRUE, toasts |-> << SQRT_UNDEFINED >>]
    ELSE [return |-> FALSE, value |-> Sqrt(inputValue)]

\* The switch of handleScientificFunction: the toast of a return, or the result.
\* (No case throws, so the catch is never entered.)
ScientificResult(func, inputValue) ==
    CASE func \in {"sin", "tan"} -> [return |-> FALSE, value |-> SinTan(Radians(inputValue))]
      [] func = "cos" -> [return |-> FALSE, value |-> Cos(Radians(inputValue))]
      [] func = "log" ->
            IF Negative(inputValue) \/ IsZero(inputValue)
            THEN [return |-> TRUE, toasts |-> << LOG_UNDEFINED >>]
            ELSE [return |-> FALSE, value |-> Log10(inputValue)]
      [] func = "ln" ->
            IF Negative(inputValue) \/ IsZero(inputValue)
            THEN [return |-> TRUE, toasts |-> << LN_UNDEFINED >>]
            ELSE [return |-> FALSE, value |-> Ln(inputValue)]
      [] func = "sqrt" -> SqrtCase(inputValue)
      [] func = "x²" -> [return |-> FALSE, value |-> Mul(inputValue, inputValue)]
      [] func = "1/x" ->
            IF IsZero(inputValue)
            THEN [return |-> TRUE, toasts |-> << DIVIDE_BY_ZERO >>]
            ELSE [return |-> FALSE, value |-> Div(Whole(1), inputValue)]
      [] func = "π" -> [return |-> FALSE, value |-> Sym(FALSE, "PI")]
      [] func = "e" -> [return |-> FALSE, value |-> Sym(FALSE, "E")]
      [] func = "±" -> [return |-> FALSE, value |-> Neg(inputValue)]
      [] func = "%" -> [return |-> FALSE, value |-> Div(inputValue, Whole(100))]
      [] OTHER -> [return |-> TRUE, toasts |-> << >>]

\* handleScientificFunction writing the result into the expression: `${func}(${result})`
handleScientificFunction_RecordsResult(func) ==
    LET inputValue == parseFloat(display)
        result == ScientificResult(func, inputValue)
    IN /\ Modelled(inputValue)
       /\ IF result.return
          THEN /\ toasts' = result.toasts
               /\ UNCHANGED << display, waitingForOperand, history, now, recorded >>
          ELSE /\ Modelled(result.value)
               /\ addToHistory(FuncText(func) \o << "(" >> \o NumberToString(result.value) \o << ")" >>,
                               NumberToString(result.value))
               /\ display' = NumberToString(result.value)
               /\ waitingForOperand' = TRUE
               /\ toasts' = << >>
       /\ UNCHANGED << previousValue, operation >>

\* handleScientificFunction without setWaitingForOperand(true)
handleScientificFunction_NoWaiting(func) ==
    LET inputValue == parseFloat(display)
        result == ScientificResult(func, inputValue)
    IN /\ Modelled(inputValue)
       /\ IF result.return
          THEN /\ toasts' = result.toasts
               /\ UNCHANGED << display, history, now, recorded >>
          ELSE /\ Modelled(result.value)
               /\ addToHistory(FuncText(func) \o << "(" >> \o NumberToString(inputValue) \o << ")" >>,
                               NumberToString(result.value))
               /\ display' = NumberToString(result.value)
               /\ toasts' = << >>
       /\ UNCHANGED << previousValue, operation, waitingForOperand >>

handleScientificFunction(func) ==
    LET inputValue == parseFloat(display)
        result == ScientificResult(func, inputValue)
    IN /\ Modelled(inputValue)
       /\ IF result.return
          THEN /\ toasts' = result.toasts
               /\ UNCHANGED << display, waitingForOperand, history, now, recorded >>
          ELSE /\ Modelled(result.value)
               /\ addToHistory(FuncText(func) \o << "(" >> \o NumberToString(inputValue) \o << ")" >>,
                               NumberToString(result.value))
               /\ display' = NumberToString(result.value)
               /\ waitingForOperand' = TRUE
               /\ toasts' = << >>
       /\ UNCHANGED << previousValue, operation >>

\* The Clear History button, rendered while the history holds an item:
\* onClick={() => setHistory([])}
clearHistory ==
    /\ Len(history) > 0
    /\ history' = << >>
    /\ recorded' = << >>
    /\ toasts' = << >>
    /\ UNCHANGED << display, previousValue, operation, waitingForOperand, now >>

-----------------------------------------------------------------------------
(* Commands: a click on a button of basicButtons or scientificButtons, or on *)
(* Clear History, each handled to its end.                                  *)

\* The handler a command runs.
Handle(c) ==
    CASE c.t = "digit" -> handleNumberClick(c.a)
      [] c.t = "point" -> handleDecimalClick
      [] c.t = "operator" -> handleOperationClick(c.a)
      [] c.t = "equals" -> handleEqualsClick
      [] c.t = "clear" -> handleClearClick
      [] c.t = "backspace" -> handleBackspaceClick
      [] c.t = "function" -> handleScientificFunction(c.a)
      [] c.t = "clearHistory" -> clearHistory

Cmd(t, a) == [t |-> t, a |-> a]

\* A command of a free run has been handled.
Clicked(c) ==
    /\ last' = c
    /\ UNCHANGED << script, pc >>

\* A free run is explored while the keys build a display of at most MaxLen
\* characters, and while at most held items have been recorded since Clear
\* History was last clicked.
ClickNumber(num, held) ==
    /\ Len(recorded) <= held
    /\ handleNumberClick(num)
    /\ Len(display') <= MaxLen
    /\ Clicked(Cmd("digit", num))

ClickDecimal(held) ==
    /\ Len(recorded) <= held
    /\ handleDecimalClick
    /\ Len(display') <= MaxLen
    /\ Clicked(Cmd("point", ""))

ClickOperation(op, held) ==
    /\ Len(recorded) <= held
    /\ handleOperationClick(op)
    /\ Clicked(Cmd("operator", op))

ClickEquals(held) ==
    /\ Len(recorded) <= held
    /\ handleEqualsClick
    /\ Clicked(Cmd("equals", ""))

ClickClear(held) ==
    /\ Len(recorded) <= held
    /\ handleClearClick
    /\ Clicked(Cmd("clear", ""))

ClickBackspace(held) ==
    /\ Len(recorded) <= held
    /\ handleBackspaceClick
    /\ Clicked(Cmd("backspace", ""))

ClickFunction(func, held) ==
    /\ Len(recorded) <= held
    /\ handleScientificFunction(func)
    /\ Clicked(Cmd("function", func))

ClickClearHistory ==
    /\ clearHistory
    /\ Clicked(Cmd("clearHistory", ""))

\* The keys of a free run of the accumulator: every command, with two of the
\* digits and five of the functions.  The history is emptied before the command
\* that follows a recorded item.
Digits == { "0", "2" }
Unary == { "sqrt", "1/x", "±", "log", "ln" }

Next ==
    \/ \E num \in Digits : ClickNumber(num, 0)
    \/ ClickDecimal(0)
    \/ \E op \in Operators : ClickOperation(op, 0)
    \/ ClickEquals(0)
    \/ ClickClear(0)
    \/ ClickBackspace(0)
    \/ \E func \in Unary : ClickFunction(func, 0)
    \/ ClickClearHistory

Spec == Init /\ [][Next]_vars

-----------------------------------------------------------------------------
(* Runs of the digit and point keys alone, from the initial state. *)

AllDigits == { DigitChars[i] : i \in 1..10 }

NextEntry ==
    \/ \E num \in AllDigits : ClickNumber(num, 0)
    \/ ClickDecimal(0)

SpecEntry == Init /\ [][NextEntry]_vars

-----------------------------------------------------------------------------
(* Runs that fill the history log: every command, on the one number 0 (0 + 0 *)
(* is the one calculation, and log of 0 is refused), within one tick of the  *)
(* clock, so that the items recorded are all alike.                          *)

NextHistory ==
    \/ ClickNumber("0", MaxRecorded - 1)
    \/ ClickDecimal(MaxRecorded - 1)
    \/ ClickOperation("+", MaxRecorded - 1)
    \/ ClickEquals(MaxRecorded - 1)
    \/ ClickClear(MaxRecorded - 1)
    \/ ClickBackspace(MaxRecorded - 1)
    \/ ClickFunction("log", MaxRecorded - 1)
    \/ ClickClearHistory

InitHistory == InitWith(<< >>, MaxNow)

SpecHistory == InitHistory /\ [][NextHistory]_vars

-----------------------------------------------------------------------------
(* Scripted runs: a fixed sequence of commands from the initial state. *)

\* The largest operand a script types.
MaxOperand == 5

\* The keys that type a text of digits and points.
Keys(text) ==
    [i \in 1..Len(text) |->
        IF text[i] = "." THEN Cmd("point", "") ELSE Cmd("digit", text[i])]

\* The text a sequence of digit and point commands types.
KeyText(cmds) ==
    [i \in 1..Len(cmds) |-> IF cmds[i].t = "point" THEN "." ELSE cmds[i].a]

Wholes == { NatText(i) : i \in 0..MaxOperand }
\* An operand as typed: 3, 3. or 3.5
Operands ==
    Wholes \cup { w \o << "." >> : w \in Wholes } \cup { w \o << ".", "5" >> : w \in Wholes }

\* a ÷ 0 =
DivideScript(a) ==
    Keys(a) \o << Cmd("operator", "÷"), Cmd("digit", "0"), Cmd("equals", "") >>

\* a op1 b op2 c =
ChainScript(a, op1, b, op2, c) ==
    Keys(a) \o << Cmd("operator", op1) >> \o Keys(b) \o << Cmd("operator", op2) >>
    \o Keys(c) \o << Cmd("equals", "") >>

RECURSIVE Repeat(_, _)
\* cmds, k times over
Repeat(cmds, k) == IF k = 0 THEN << >> ELSE cmds \o Repeat(cmds, k - 1)

\* Five calculations, of five results: 2 + 2 =, sqrt, ±, x², 1/x
Phrase ==
    << Cmd("digit", "2"), Cmd("operator", "+"), Cmd("digit", "2"), Cmd("equals", ""),
       Cmd("function", "sqrt"), Cmd("function", "±"), Cmd("function", "x²"),
       Cmd("function", "1/x") >>

\* More than MaxRecorded calculations in a row, after a Clear History.
LongScript ==
    << Cmd("digit", "2"), Cmd("function", "x²"), Cmd("clearHistory", ""),
       Cmd("point", ""), Cmd("digit", "5"), Cmd("backspace", ""), Cmd("clear", "") >>
    \o Repeat(Phrase, (MaxRecorded \div 5) + 1)

\* 2, ±, backspace: the display is left at "-", which parseFloat reads as NaN.
Dash == << Cmd("digit", "2"), Cmd("function", "±"), Cmd("backspace", "") >>
\* The ways a script enters its left operand, and the display each leaves.
LeftEntries == { Keys(<< "0" >>), Keys(<< "2" >>), Dash }
LeftText(entry) == IF entry = Dash THEN << "-" >> ELSE KeyText(entry)
\* The digits of a script's right operand, the functions applied to it, and the
\* commands that resolve the pending operation.
RightDigits == { "0", "2", "4" }
ScriptFunctions == { "sqrt", "x²", "±" }
Resolvers == { Cmd("operator", "+"), Cmd("operator", "×"), Cmd("equals", "") }

\* left op b fn, then an operator or equals
UnaryScript(entry, op, b, fn, fin) ==
    entry \o << Cmd("operator", op), Cmd("digit", b), Cmd("function", fn), fin >>

UnaryScripts ==
    { UnaryScript(x[1], x[2], x[3], x[4], x[5]) :
        x \in LeftEntries \X Operators \X RightDigits \X ScriptFunctions \X Resolvers }

\* An operand, or the "-" that reads as NaN, and one function applied to it.
FunctionScripts ==
    { entry \o << Cmd("function", fn) >> :
        entry \in { Keys(a) : a \in Operands } \cup { Dash }, fn \in Functions }

Scripts ==
    { DivideScript(a) : a \in Operands }
    \cup { ChainScript(x[1], x[2], x[3], x[4], x[5]) :
             x \in Wholes \X Operators \X Wholes \X Operators \X Wholes }
    \cup { LongScript }
    \cup UnaryScripts
    \cup FunctionScripts

InitScript == \E cmds \in Scripts : InitWith(cmds, 0)

\* The next command of the script, handled to its end.
Step ==
    /\ pc <= Len(script)
    /\ Handle(script[pc])
    /\ last' = script[pc]
    /\ pc' = pc + 1
    /\ UNCHANGED script

SpecScript == InitScript /\ [][Step]_vars

-----------------------------------------------------------------------------
(* The claims *)

\* The number of points in a text.
Points(s) == Cardinality({ i \in 1..Len(s) : s[i] = "." })
\* A text of digits and points alone.
DigitsAndPoints(s) == \A i \in 1..Len(s) : IsDigit(s[i]) \/ s[i] = "."
\* s matches ^\d*\.?\d*$
MatchesEntry(s) ==
    LET rest == Drop(s, Len(DigitPrefix(s)))
        tail == IF rest # << >> /\ rest[1] = "." THEN Tail(rest) ELSE rest
    IN DigitPrefix(tail) = tail

\* There is a pending operation.
Pending == previousValue # Null /\ operation # OpNull

\* C1: in every state of a run of the eight commands the history holds at most
\* 50 items.
C1_HistoryAtMost50 == Len(history) <= 50

\* A 51st and a 52nd item have been recorded, and the history holds 50.
C1_Witness == Len(recorded) >= 52 /\ Len(history) = 50

\* C2: once more than 50 items have been recorded with no Clear History in
\* between, the history holds exactly 50 items: the 50 recorded last, the newest
\* first.
C2_FiftyMostRecentNewestFirst ==
    Len(recorded) > 50 =>
        /\ Len(history) = 50
        /\ \A i \in 1..50 : history[i] = recorded[Len(recorded) + 1 - i]

\* 52 items recorded, the two at the front of the history unlike each other and
\* unlike the last.
C2_Witness ==
    /\ Len(recorded) = 52
    /\ history[1].expression # history[2].expression
    /\ history[1] # history[50]

\* C3 as stated: in every state of a run of the accumulator commands the display
\* holds digits and at most one point, and nothing else.
C3_DisplayDigitsAndOnePoint == DigitsAndPoints(display) /\ Points(display) <= 1

\* C3 as amended: the display holds at most one point in every state, and digits
\* and that point alone whenever the latest command was a digit, the point or
\* clear (or none was given yet).
C3_Amended ==
    /\ Points(display) <= 1
    /\ last.t \in {"none", "digit", "point", "clear"} => DigitsAndPoints(display)

\* A digit typed over the negative result of a calculation with a pending operation.
C3_Witness ==
    /\ last.t = "digit"
    /\ Pending
    /\ Negative(previousValue)
    /\ ~waitingForOperand

\* C4: after every run of the digit and point keys from the initial state the
\* display matches ^\d*\.?\d*$ and holds at most one point.
C4_EntryDisplayValid == MatchesEntry(display) /\ Points(display) <= 1

\* The point key was pressed on a display that held a point already, and was ignored.
C4_Witness ==
    /\ last.t = "point"
    /\ Len(display) = 3
    /\ display[2] = "."

\* The domain errors of applyUnary: log and ln of x <= 0, sqrt of x < 0, 1/x of x = 0.
DomainError(func, x) ==
    \/ func \in {"log", "ln"} /\ (Negative(x) \/ IsZero(x))
    \/ func = "sqrt" /\ Negative(x)
    \/ func = "1/x" /\ IsZero(x)

\* C5: a scientific function applied on a domain error reports exactly one error
\* and leaves the display, waitingForOperand, the pending operation and the history
\* as they were.
C5_DomainErrorLeavesState ==
    [][ (last'.t = "function" /\ DomainError(last'.a, parseFloat(display))) =>
            /\ Len(toasts') = 1
            /\ display' = display
            /\ waitingForOperand' = waitingForOperand
            /\ previousValue' = previousValue
            /\ operation' = operation
            /\ history' = history ]_vars

\* sqrt was refused on a negative display, with an operation pending.
C5_Witness ==
    /\ last = Cmd("function", "sqrt")
    /\ toasts = << SQRT_UNDEFINED >>
    /\ Negative(parseFloat(display))
    /\ Pending

\* The script is a ÷ 0 =
IsDivideScript(cmds) == \E a \in Operands : cmds = DivideScript(a)
\* The operand a script types first: the number its keys before the first operator denote.
FirstOperand(cmds) ==
    parseFloat(KeyText(SubSeq(cmds, 1,
        (CHOOSE i \in 1..Len(cmds) : cmds[i].t = "operator"
                                     /\ \A j \in 1..(i - 1) : cmds[j].t # "operator") - 1)))

\* C6: a ÷ 0 = from the initial state ends with the display showing a, one error
\* reported (by equals, none before it), no operation pending, and no item
\* recorded or one whose result is a.
C6_DivideByZero ==
    IsDivideScript(script) =>
        /\ pc <= Len(script) => toasts = << >>
        /\ pc > Len(script) =>
              /\ display = NumberToString(FirstOperand(script))
              /\ toasts = << DIVIDE_BY_ZERO >>
              /\ ~Pending /\ previousValue = Null /\ operation = OpNull
              /\ \/ history = << >>
                 \/ Len(history) = 1 /\ history[1].result = NumberToString(FirstOperand(script))

\* 5 ÷ 0 = has run: the display shows 5.
C6_Witness ==
    /\ script = DivideScript(<< "5" >>)
    /\ pc > Len(script)
    /\ display = << "5" >>
    /\ Len(history) = 1

\* The script is a op1 b op2 c =, each operand one digit.
IsChainScript(cmds) ==
    /\ Len(cmds) = 6
    /\ cmds[1].t = "digit" /\ cmds[2].t = "operator" /\ cmds[3].t = "digit"
    /\ cmds[4].t = "operator" /\ cmds[5].t = "digit" /\ cmds[6].t = "equals"

\* C7: a op1 b op2 c = from the initial state leaves the display showing the text
\* of calculate(calculate(a, b, op1), c, op2); 2 + 3 × 4 = displays 20.
C7_LeftToRight ==
    (IsChainScript(script) /\ pc > Len(script)) =>
        LET a == parseFloat(<< script[1].a >>)
            b == parseFloat(<< script[3].a >>)
            c == parseFloat(<< script[5].a >>)
            first == calculate(a, b, script[2].a).value
            second == IF Modelled(first) THEN calculate(first, c, script[4].a).value
                      ELSE Unmodelled
        IN /\ Modelled(second) => display = NumberToString(second)
           /\ script = ChainScript(<< "2" >>, "+", << "3" >>, "×", << "4" >>)
                 => display = << "2", "0" >>

\* 2 + 3 × 4 = has run.
C7_Witness ==
    /\ script = ChainScript(<< "2" >>, "+", << "3" >>, "×", << "4" >>)
    /\ pc > Len(script)
    /\ display = << "2", "0" >>

\* C8: equals with a pending operation {left, op} and the display parsing to b
\* records exactly one item, of expression "left op b" and of result the text of
\* calculate(left, b, op), shows that text, clears the pending operation and sets
\* waitingForOperand.
C8_EqualsRecords ==
    [][ (last'.t = "equals" /\ Pending) =>
            LET b == parseFloat(display)
                text == NumberToString(calculate(previousValue, b, operation).value)
            IN /\ recorded' = Append(recorded, history'[1])
               /\ history' = << history'[1] >> \o SliceTo(history, 49)
               /\ history'[1].expression =
                     NumberToString(previousValue) \o << " ", operation, " " >> \o NumberToString(b)
               /\ history'[1].result = text
               /\ display' = text
               /\ previousValue' = Null
               /\ operation' = OpNull
               /\ waitingForOperand' = TRUE ]_vars

\* 2 ^ 2 = has recorded "2 ^ 2" with the result 4.
C8_Witness ==
    /\ last.t = "equals"
    /\ Len(history) = 1
    /\ history[1].expression = << "2", " ", "^", " ", "2" >>
    /\ history[1].result = << "4" >>
    /\ display = << "4" >>

\* C9: equals with no pending operation changes nothing and reports no error.
C9_EqualsIdle ==
    [][ (last'.t = "equals" /\ ~Pending) =>
            /\ display' = display
            /\ previousValue' = previousValue
            /\ operation' = operation
            /\ waitingForOperand' = waitingForOperand
            /\ history' = history
            /\ toasts' = << >> ]_vars

\* equals was clicked on a typed number with nothing pending and nothing recorded.
C9_Witness ==
    /\ last.t = "equals"
    /\ history = << >>
    /\ ~waitingForOperand
    /\ display = << "2", ".", "2" >>

\* C10: clear leaves the display "0", no pending operation and waitingForOperand
\* false, and a second clear right after it changes nothing.
C10_ClearIdempotent ==
    [][ last'.t = "clear" =>
            /\ display' = << "0" >>
            /\ previousValue' = Null /\ operation' = OpNull
            /\ waitingForOperand' = FALSE
            /\ last.t = "clear" =>
                  UNCHANGED << display, previousValue, operation, waitingForOperand,
                               history, now, toasts >> ]_vars

\* clear was clicked after a calculation was recorded (the clock has been read since).
C10_Witness ==
    /\ last.t = "clear"
    /\ now > 0
    /\ display = << "0" >>
    /\ ~Pending
    /\ ~waitingForOperand

\* The command at hand is a scientific function that returns before its result:
\* a domain error, or a function the switch does not know.
Aborts(c) == c.t = "function" /\ ScientificResult(c.a, parseFloat(display)).return

\* C11: the history gains an item only on equals with a pending operation and on
\* a scientific function that does not abort, and exactly one item then; a digit,
\* the point, an operator (also one that resolves a pending operation), clear and
\* backspace leave the history as it was.
C11_RecordsOnlyOnResults ==
    [][ /\ last'.t \in {"digit", "point", "operator", "clear", "backspace"} =>
              history' = history /\ recorded' = recorded
        /\ (last'.t = "equals" /\ ~Pending) \/ Aborts(last') =>
              history' = history /\ recorded' = recorded
        /\ (last'.t = "equals" /\ Pending) \/ (last'.t = "function" /\ ~Aborts(last')) =>
              /\ Len(recorded') = Len(recorded) + 1
              /\ Len(history') = Len(history) + 1
              /\ SliceTo(history', 1) = << recorded'[Len(recorded')] >>
              /\ Tail(history') = history ]_vars

\* An operator click has resolved a pending operation (2 + 2 shown as 4) and
\* nothing is recorded.
C11_Witness ==
    /\ last.t = "operator"
    /\ Pending
    /\ display = << "4" >>
    /\ previousValue = Whole(4)
    /\ history = << >>
    /\ recorded = << >>

\* Two numbers that JavaScript's === cannot tell apart, or both NaN.
SameNumber(x, y) == x = y \/ (IsZero(x) /\ IsZero(y))

\* C12: a scientific function leaves the pending operation as it was, and the
\* operator or equals that follows resolves it as calculate(left, r, op), r being
\* the function's result on the display. Stated of the scripts left op b fn,
\* followed by an operator or by equals.
C12_UnaryKeepsPending ==
    \A entry \in LeftEntries, op \in Operators, b \in RightDigits,
       fn \in ScriptFunctions, fin \in Resolvers :
        LET left == parseFloat(LeftText(entry))
            r == ScientificResult(fn, parseFloat(<< b >>))
        IN (script = UnaryScript(entry, op, b, fn, fin) /\ ~r.return) =>
              /\ pc = Len(script) =>
                    /\ SameNumber(previousValue, left)
                    /\ operation = op
                    /\ display = NumberToString(r.value)
              /\ pc > Len(script) =>
                    display = NumberToString(calculate(left, r.value, op).value)

\* C13: backspace removes the last character of a display of more than one
\* character and turns any other display into "0"; it changes nothing else,
\* whether waitingForOperand is set or not.
C13_BackspaceOnlyDisplay ==
    [][ last'.t = "backspace" =>
            /\ Len(display) > 1 => display' = SubSeq(display, 1, Len(display) - 1)
            /\ Len(display) <= 1 => display' = << "0" >>
            /\ previousValue' = previousValue
            /\ operation' = operation
            /\ waitingForOperand' = waitingForOperand
            /\ history' = history
            /\ toasts' = << >> ]_vars

\* backspace has turned the one-digit operand of a pending operation into "0"
\* while waitingForOperand was set.
C13_Witness ==
    /\ last.t = "backspace"
    /\ waitingForOperand
    /\ Pending
    /\ previousValue = Whole(2)
    /\ display = << "0" >>

\* C14: in every state no two items of the history have the same id.
C14_UniqueIds ==
    \A i, j \in 1..Len(history) : i # j => history[i].id # history[j].id

\* C15: an operator click on a display that parses to v stores {v, op} and leaves
\* the display as it is when no operation is pending; when {left, p} is pending
\* it shows the text of calculate(left, v, p) and stores that result with op, for
\* every value of left; either way it sets waitingForOperand.
C15_ChooseOperator ==
    [][ last'.t = "operator" =>
            LET v == parseFloat(display)
                result == calculate(previousValue, v, operation).value
            IN /\ waitingForOperand' = TRUE
               /\ operation' = last'.a
               /\ ~Pending => SameNumber(previousValue', v) /\ display' = display
               /\ Pending => /\ display' = NumberToString(result)
                             /\ SameNumber(previousValue', result) ]_vars

\* C17: an operator click that resolves a pending ÷ on a display that parses to 0
\* reports one division-by-zero error, shows the text of the left operand, and
\* keeps that left operand pending with the operator just chosen.
C17_ChainedDivideByZero ==
    [][ (last'.t = "operator" /\ Pending /\ operation = "÷" /\ IsZero(parseFloat(display))) =>
            /\ toasts' = << DIVIDE_BY_ZERO >>
            /\ display' = NumberToString(previousValue)
            /\ SameNumber(previousValue', previousValue)
            /\ operation' = last'.a
            /\ waitingForOperand' = TRUE ]_vars

\* C18: the point key shows "0." and clears waitingForOperand when it is set;
\* otherwise it appends a point to a display without one, and changes nothing
\* when the display has one. It never changes the pending operation or the history.
C18_DecimalPoint ==
    [][ last'.t = "point" =>
            /\ waitingForOperand =>
                  display' = << "0", "." >> /\ waitingForOperand' = FALSE
            /\ (~waitingForOperand /\ Points(display) = 0) =>
                  display' = Append(display, ".") /\ waitingForOperand' = FALSE
            /\ (~waitingForOperand /\ Points(display) > 0) =>
                  display' = display /\ waitingForOperand' = FALSE
            /\ previousValue' = previousValue
            /\ operation' = operation
            /\ history' = history
            /\ toasts' = << >> ]_vars

\* The point key has started a fresh operand "0." for a pending operation.
C18_Witness ==
    /\ last.t = "point"
    /\ display = << "0", "." >>
    /\ Pending
    /\ previousValue = Whole(2)
    /\ ~waitingForOperand

\* C19: a digit key shows the digit alone and clears waitingForOperand when it is
\* set; otherwise it appends the digit to the display, or replaces a display of
\* exactly "0". It never changes the pending operation or the history.
C19_Digit ==
    [][ last'.t = "digit" =>
            /\ waitingForOperand => display' = << last'.a >>
            /\ (~waitingForOperand /\ display = << "0" >>) => display' = << last'.a >>
            /\ (~waitingForOperand /\ display # << "0" >>) => display' = Append(display, last'.a)
            /\ waitingForOperand' = FALSE
            /\ previousValue' = previousValue
            /\ operation' = operation
            /\ history' = history
            /\ toasts' = << >> ]_vars

\* A digit has been appended to the operand "0." of a pending operation.
C19_Witness ==
    /\ last = Cmd("digit", "2")
    /\ display = << "0", ".", "2" >>
    /\ Pending
    /\ ~waitingForOperand

\* C20: waitingForOperand is set by every operator click, by equals with a
\* pending operation and by every scientific function that does not abort; once
\* set it stays set until a digit, the point or clear, backspace included; and
\* the digit that then comes replaces the display instead of extending it.
C20_WaitingUntilEntry ==
    [][ /\ ( \/ last'.t = "operator"
             \/ last'.t = "equals" /\ Pending
             \/ last'.t = "function" /\ ~Aborts(last') ) => waitingForOperand' = TRUE
        /\ (waitingForOperand /\ last'.t \notin {"digit", "point", "clear"}) =>
              waitingForOperand' = TRUE
        /\ (waitingForOperand /\ last'.t = "digit") =>
              display' = << last'.a >> /\ waitingForOperand' = FALSE ]_vars

\* backspace has cut the result -2 down to "-", and waitingForOperand is still set.
C20_Witness ==
    /\ last.t = "backspace"
    /\ waitingForOperand
    /\ display = << "-" >>

\* The value the function table gives for fn at x.
TableValue(fn, x) ==
    CASE fn = "π" -> Sym(FALSE, "PI")
      [] fn = "e" -> Sym(FALSE, "E")
      [] fn = "±" -> Neg(x)
      [] fn = "%" -> Div(x, Whole(100))
      [] OTHER -> ScientificResult(fn, x).value

\* C21: a scientific function fn that does not abort, on a display that parses to
\* x, records exactly one item, of expression "fn(x)" and of result the text of
\* the function's value, shows that text and sets waitingForOperand; π and e give
\* their constant whatever x is, ± gives -x and % gives x / 100.
C21_UnaryRecords ==
    [][ (last'.t = "function" /\ ~Aborts(last')) =>
            LET x == parseFloat(display)
                text == NumberToString(TableValue(last'.a, x))
            IN /\ recorded' = Append(recorded, history'[1])
               /\ history' = << history'[1] >> \o SliceTo(history, 49)
               /\ history'[1].expression =
                     FuncText(last'.a) \o << "(" >> \o NumberToString(x) \o << ")" >>
               /\ history'[1].result = text
               /\ display' = text
               /\ waitingForOperand' = TRUE
               /\ last'.a = "π" => text = PI_TEXT
               /\ last'.a = "e" => text = E_TEXT ]_vars

\* % has been applied to 2.5: "%(2.5)" is recorded with the result 0.025.
C21_Witness ==
    /\ last = Cmd("function", "%")
    /\ Len(history) = 1
    /\ history[1].expression = << "%", "(", "2", ".", "5", ")" >>
    /\ history[1].result = << "0", ".", "0", "2", "5" >>
    /\ display = << "0", ".", "0", "2", "5" >>
    /\ waitingForOperand

\* The accumulator: the four fields the handlers read besides the history.
Accumulator ==
    [display |-> display, previousValue |-> previousValue, operation |-> operation,
     waitingForOperand |-> waitingForOperand]

\* What a command does to an accumulator acc, as a function of acc and the
\* command alone: the accumulator it leaves and the items (expression, result)
\* it hands to addToHistory.
Respond(acc, c) ==
    LET v == parseFloat(acc.display)
        pending == acc.previousValue # Null /\ acc.operation # OpNull
        Kept == [acc |-> acc, emitted |-> << >>]
    IN CASE c.t = "digit" ->
              [acc |-> [acc EXCEPT
                          !.display = IF acc.waitingForOperand \/ acc.display = << "0" >>
                                      THEN << c.a >> ELSE acc.display \o << c.a >>,
                          !.waitingForOperand = FALSE],
               emitted |-> << >>]
         [] c.t = "point" ->
              [acc |-> [acc EXCEPT
                          !.display = IF acc.waitingForOperand THEN << "0", "." >>
                                      ELSE IF NoPoint(acc.display) THEN acc.display \o << "." >>
                                      ELSE acc.display,
                          !.waitingForOperand = FALSE],
               emitted |-> << >>]
         [] c.t = "operator" ->
              LET value == calculate(OrZero(acc.previousValue), v, acc.operation).value
              IN [acc |-> [display |-> IF pending THEN NumberToString(value) ELSE acc.display,
                           previousValue |-> IF acc.previousValue = Null THEN v
                                             ELSE IF pending THEN value ELSE acc.previousValue,
                           operation |-> c.a,
                           waitingForOperand |-> TRUE],
                  emitted |-> << >>]
         [] c.t = "equals" ->
              IF pending
              THEN LET text == NumberToString(calculate(acc.previousValue, v, acc.operation).value)
                   IN [acc |-> [display |-> text, previousValue |-> Null, operation |-> OpNull,
                                waitingForOperand |-> TRUE],
                       emitted |-> << [expression |-> NumberToString(acc.previousValue)
                                                      \o << " ", acc.operation, " " >>
                                                      \o NumberToString(v),
                                       result |-> text] >>]
              ELSE Kept
         [] c.t = "clear" ->
              [acc |-> [display |-> << "0" >>, previousValue |-> Null, operation |-> OpNull,
                        waitingForOperand |-> FALSE],
               emitted |-> << >>]
         [] c.t = "backspace" ->
              [acc |-> [acc EXCEPT
                          !.display = IF Len(acc.display) > 1
                                      THEN SliceTo(acc.display, Len(acc.display) - 1)
                                      ELSE << "0" >>],
               emitted |-> << >>]
         [] c.t = "function" ->
              LET r == ScientificResult(c.a, v)
              IN IF r.return THEN Kept
                 ELSE [acc |-> [acc EXCEPT !.display = NumberToString(r.value),
                                           !.waitingForOperand = TRUE],
                       emitted |-> << [expression |-> FuncText(c.a) \o << "(" >>
                                                      \o NumberToString(v) \o << ")" >>,
                                       result |-> NumberToString(r.value)] >>]
         [] OTHER -> Kept

\* The expression and result of the items a step has handed to addToHistory.
Emitted ==
    [i \in 1..(Len(recorded') - Len(recorded)) |->
        [expression |-> recorded'[Len(recorded) + i].expression,
         result |-> recorded'[Len(recorded) + i].result]]

\* C22: Clear History leaves the display, the pending operation and
\* waitingForOperand as they are, and what an accumulator command leaves in them
\* and hands to the history is a function of them and of the command alone: two
\* states that agree on them and differ in the history get the same outcome.
C22_HistoryDoesNotFeedBack ==
    [][ /\ last'.t = "clearHistory" => Accumulator' = Accumulator
        /\ last'.t # "clearHistory" =>
              /\ Accumulator' = Respond(Accumulator, last').acc
              /\ Emitted = Respond(Accumulator, last').emitted ]_vars

\* 2 + 2 = has given 4 and recorded "2 + 2" once more, on a history that holds
\* the items of earlier rounds of the same commands.
C22_Witness ==
    /\ last.t = "equals"
    /\ display = << "4" >>
    /\ Len(history) >= 11
    /\ history[1].expression = << "2", " ", "+", " ", "2" >>
    /\ history[6].expression = history[1].expression
    /\ history[11].expression = history[1].expression

\* Resolving the pending operation stays within the modelled numbers.
Resolvable ==
    LET v == parseFloat(display)
    IN /\ Modelled(v)
       /\ Modelled(calculate(previousValue, v, operation).value)
       /\ Modelled(calculate(OrZero(previousValue), v, operation).value)

\* C23: in every state with a pending operation, an operator click and equals
\* leave the same text on the display, whatever the stored left operand is.
C23_OperatorAndEqualsAgree ==
    (Pending /\ Resolvable) =>
        \A op \in Operators :
            Respond(Accumulator, Cmd("operator", op)).acc.display
                = Respond(Accumulator, Cmd("equals", "")).acc.display

\* C24: in every state previousValue is null exactly when operation is null.
C24_PendingFieldsAgree == (previousValue = Null) <=> (operation = OpNull)

\* equals has cleared both fields, on a division by zero too.
C24_Witness ==
    /\ last.t = "equals"
    /\ toasts = << DIVIDE_BY_ZERO >>
    /\ previousValue = Null
    /\ operation = OpNull
    /\ Len(history) = 1

\* C25: in every state where waitingForOperand is not set the display holds
\* digits and at most one point, and nothing else; a sign, NaN or Infinity is on
\* the display only while waitingForOperand is set.
C25_EntryDisplayPlain ==
    ~waitingForOperand => (DigitsAndPoints(display) /\ Points(display) <= 1)

\* A digit has replaced the "-" that was on the display while an operation with
\* the left operand NaN was pending.
C25_Witness ==
    /\ ~waitingForOperand
    /\ last.t = "digit"
    /\ Pending
    /\ previousValue = NaN
    /\ Len(display) = 1

=============================================================================
